---- MODULE Spec2Model ----
(***************************************************************************)
(* Model of share_home_server (src/src/main.rs): the GET listing handler   *)
(* ServeIndex::handle and the POST upload handler resolve_post, acting on  *)
(* one filesystem tree.                                                    *)
(*                                                                         *)
(* Strings (file names, client supplied filenames, payloads) are sequences *)
(* of byte values.  A path (std::path::PathBuf) is the sequence of its     *)
(* components: RootDir, ParentDir or a normal name; two PathBufs are equal *)
(* when their components are.                                              *)
(***************************************************************************)
EXTENDS Naturals, Integers, Sequences, FiniteSets, TLC

VARIABLES fs, clock, req, out, lastUp, lastSaved

vars == <<fs, clock, req, out, lastUp, lastSaved>>

-----------------------------------------------------------------------------
(* Bounds of the model *)

\* requests handled in one behaviour of the upload specification
MaxRequests == 2

\* per-entry / per-call I/O faults injected into one listing
MaxFaults == 1

-----------------------------------------------------------------------------
(* Bytes and names *)

Sep == 47

RootDir == <<Sep>>
ParentDir == <<46, 46>>

nB == <<66>>
nC == <<67>>
na == <<97>>
nab == <<97, 98>>
nc == <<99>>
nh == <<104>>
nl == <<108>>
nm == <<109>>
nn == <<110>>
nq == <<113>>
nr == <<114>>
nt == <<116>>
nx == <<120>>
nBad == <<255>>

NoneV == [some |-> FALSE]
Some(x) == [some |-> TRUE, val |-> x]

-----------------------------------------------------------------------------
(* Path arithmetic (std::path) *)

\* dirs::home_dir().unwrap(): the fixed serving root, /h
HomeDir == <<RootDir, nh>>

\* the bytes of s up to its first separator
RECURSIVE Segment(_)
Segment(s) ==
    IF s = <<>> \/ Head(s) = Sep THEN <<>> ELSE <<Head(s)>> \o Segment(Tail(s))

\* PathBuf::from(string).components(), leading RootDir excluded: split on
\* the separator, drop empty and "." segments
RECURSIVE Segments(_)
Segments(s) ==
    IF s = <<>> THEN <<>>
    ELSE IF Head(s) = Sep THEN Segments(Tail(s))
    ELSE LET seg == Segment(s)
             rest == SubSeq(s, Len(seg) + 1, Len(s))
         IN  IF seg = <<46>> THEN Segments(rest) ELSE <<seg>> \o Segments(rest)

\* PathBuf::from(string) as a component sequence
PathFrom(s) ==
    IF s # <<>> /\ Head(s) = Sep THEN <<RootDir>> \o Segments(s) ELSE Segments(s)

IsAbsolute(p) == p # <<>> /\ Head(p) = RootDir

\* PathBuf::join: an absolute argument replaces the whole path
Join(p, q) == IF IsAbsolute(q) THEN q ELSE p \o q

\* Path::parent: None for the empty path and for the root
Parent(p) ==
    IF p = <<>> \/ p[Len(p)] = RootDir THEN NoneV
    ELSE Some(SubSeq(p, 1, Len(p) - 1))

RECURSIVE CommonLen(_, _)
CommonLen(a, b) ==
    IF a = <<>> \/ b = <<>> \/ Head(a) # Head(b) THEN 0
    ELSE 1 + CommonLen(Tail(a), Tail(b))

\* pathdiff::diff_paths(path, base)
DiffPaths(path, base) ==
    IF IsAbsolute(path) # IsAbsolute(base)
    THEN IF IsAbsolute(path) THEN Some(path) ELSE NoneV
    ELSE LET k == CommonLen(path, base)
             restB == SubSeq(base, k + 1, Len(base))
             restP == SubSeq(path, k + 1, Len(path))
         IN  IF \E i \in 1..Len(restB) : restB[i] = ParentDir THEN NoneV
             ELSE Some([i \in 1..Len(restB) |-> ParentDir] \o restP)

-----------------------------------------------------------------------------
(* The filesystem: a function from absolute paths to nodes *)

DirNode == [kind |-> "dir"]
FileNode(d, t) == [kind |-> "file", data |-> d, mtime |-> t]
LinkNode(target) == [kind |-> "symlink", target |-> target]

NoPath == <<<<>>>>

\* path resolution as the OS does it: ".." goes up, symbolic links are
\* followed, a missing or non-directory intermediate component fails
RECURSIVE Walk(_, _, _, _)
Walk(f, cur, rest, fuel) ==
    IF rest = <<>> THEN cur
    ELSE LET c == Head(rest) IN
         IF c = RootDir THEN Walk(f, <<RootDir>>, Tail(rest), fuel)
         ELSE IF cur \notin DOMAIN f \/ f[cur].kind # "dir" THEN NoPath
         ELSE IF c = ParentDir
              THEN Walk(f, IF Len(cur) > 1 THEN SubSeq(cur, 1, Len(cur) - 1) ELSE cur,
                        Tail(rest), fuel)
         ELSE LET nxt == Append(cur, c) IN
              IF nxt \notin DOMAIN f THEN
                  IF Tail(rest) = <<>> THEN nxt ELSE NoPath
              ELSE IF f[nxt].kind = "symlink"
                   THEN IF fuel = 0 THEN NoPath
                        ELSE Walk(f, cur, f[nxt].target \o Tail(rest), fuel - 1)
              ELSE Walk(f, nxt, Tail(rest), fuel)

\* the absolute, link-free location a path denotes (it need not exist), or
\* NoPath
Resolve(f, p) == Walk(f, <<RootDir>>, p, 2)

\* (mutant) Path::exists in place of Path::is_dir
IsDirExists(f, p) ==
    LET r == Resolve(f, p) IN r # NoPath /\ r \in DOMAIN f

\* Path::is_dir: follows links; false on any error
IsDir(f, p) ==
    LET r == Resolve(f, p) IN r # NoPath /\ r \in DOMAIN f /\ f[r].kind = "dir"

\* names of the immediate children of the directory at real path d
Children(f, d) == {p[Len(p)] : p \in {q \in DOMAIN f : Len(q) = Len(d) + 1 /\ SubSeq(q, 1, Len(d)) = d}}

InitFs ==
    (<<RootDir>> :> DirNode) @@
    (<<RootDir, nt>> :> DirNode) @@
    (HomeDir :> DirNode) @@
    (HomeDir \o <<nB>> :> DirNode) @@
    (HomeDir \o <<nab>> :> DirNode) @@
    (HomeDir \o <<nC>> :> FileNode(<<1, 2, 3>>, 0)) @@
    (HomeDir \o <<na>> :> FileNode(<<9>>, 0)) @@
    (HomeDir \o <<nl>> :> LinkNode(HomeDir \o <<na>>)) @@
    (HomeDir \o <<nm>> :> LinkNode(HomeDir \o <<nB>>)) @@
    (HomeDir \o <<nn>> :> LinkNode(HomeDir \o <<nq>>)) @@
    (HomeDir \o <<nB, nc>> :> DirNode) @@
    (HomeDir \o <<nB, na>> :> FileNode(<<>>, 0)) @@
    (HomeDir \o <<nab, nBad>> :> FileNode(<<>>, 0))

-----------------------------------------------------------------------------
(* Entry model and rendering *)

\* fmt::Display for EntryType
EntryTypeDisplay(t) == IF t = "File" THEN "file" ELSE "directory"

\* EntryDetail::new
EntryDetailNew(name, path, entry_type, size, date) ==
    [name |-> name, path |-> path, entry_type |-> entry_type, size |-> size, date |-> date]

\* format!("{}", n) for an unsigned integer: its decimal digits
RECURSIVE Decimal(_)
Decimal(n) == IF n < 10 THEN <<48 + n>> ELSE Decimal(n \div 10) \o <<48 + (n % 10)>>

\* format!("{}", d) for a DateTime<Local>: a non-empty text that names the instant
FormatDate(t) == <<84>> \o Decimal(t)

\* String::from_utf8 restricted to the bytes used here: ASCII is valid, 0xF8..0xFF
\* never occur in UTF-8
IsUtf8(s) == \A i \in 1..Len(s) : s[i] < 128

\* the href of to_html: "/" joined with the path relative to the home directory
Href(path) ==
    LET d == DiffPaths(path, HomeDir) IN
    IF d.some THEN Some(Join(<<RootDir>>, d.val)) ELSE NoneV

\* EntryDetail::to_html: the <li> fragment, as the six values substituted
\* into the format string
ToHtml(e) ==
    [href  |-> Href(e.path).val,
     class |-> <<"icon", "icon-", EntryTypeDisplay(e.entry_type)>>,
     title |-> e.name,
     name  |-> e.name,
     size  |-> IF e.size.some THEN Decimal(e.size.val) ELSE <<>>,
     date  |-> IF e.date.some THEN FormatDate(e.date.val) ELSE <<>>]

\* From<DirEntry> for EntryDetail, for the child n of the directory whose
\* requested path is target and whose real location is real
FromDirEntry(f, target, real, n, faults) ==
    LET node == f[Append(real, n)]
        entry_type == IF node.kind = "dir" \/ node.kind = "symlink"
                      THEN "Directory" ELSE "File"
        size == IF entry_type = "File" /\ <<"size", n>> \notin faults
                THEN Some(Len(node.data)) ELSE NoneV
        date == IF entry_type = "File" /\ <<"date", n>> \notin faults
                THEN Some(node.mtime) ELSE NoneV
    IN  EntryDetailNew(n, Join(target, <<n>>), entry_type, size, date)

\* the unwraps of From<DirEntry>: a name that is not UTF-8, a failing
\* file_type query
FromPanics(n, faults) == ~IsUtf8(n) \/ <<"from", n>> \in faults

-----------------------------------------------------------------------------
(* Sorting *)

\* Ord::cmp on OsString: byte-wise lexicographic order
RECURSIVE LexLess(_, _)
LexLess(a, b) ==
    IF b = <<>> THEN FALSE
    ELSE IF a = <<>> THEN TRUE
    ELSE IF Head(a) # Head(b) THEN Head(a) < Head(b)
    ELSE LexLess(Tail(a), Tail(b))

RECURSIVE Insert(_, _)
Insert(x, s) ==
    IF s = <<>> THEN <<x>>
    ELSE IF LexLess(x, Head(s)) THEN <<x>> \o s
    ELSE <<Head(s)>> \o Insert(x, Tail(s))

\* (mutant) the entries in the order read_dir yields them
SortedByUnsorted(s) == s

\* Itertools::sorted_by with the file_name comparison
RECURSIVE SortedBy(_)
SortedBy(s) == IF s = <<>> THEN <<>> ELSE Insert(Head(s), SortedBy(Tail(s)))

RECURSIVE SetToSeq(_)
SetToSeq(S) ==
    IF S = {} THEN <<>>
    ELSE LET x == CHOOSE y \in S : TRUE IN <<x>> \o SetToSeq(S \ {x})

Reverse(s) == [i \in 1..Len(s) |-> s[Len(s) + 1 - i]]

\* the order in which read_dir yields entries is unspecified: one of two
\* opposite orders
DirOrder(S, rev) == IF rev THEN Reverse(SetToSeq(S)) ELSE SetToSeq(S)

-----------------------------------------------------------------------------
(* GET: ServeIndex::handle *)

HasDoubleSep(s) == \E i \in 1..(Len(s) - 1) : s[i] = Sep /\ s[i + 1] = Sep

\* rocket's Segments: the non-empty pieces between separators
RECURSIVE UriSegments(_)
UriSegments(s) ==
    IF s = <<>> THEN <<>>
    ELSE IF Head(s) = Sep THEN UriSegments(Tail(s))
    ELSE LET seg == Segment(s)
         IN  <<seg>> \o UriSegments(SubSeq(s, Len(seg) + 1, Len(s)))

RECURSIVE UriOf(_)
UriOf(segs) == IF segs = <<>> THEN <<>> ELSE <<Sep>> \o Head(segs) \o UriOf(Tail(segs))

\* Origin::to_normalized: a path without empty segments is kept as it is,
\* any other is rebuilt from its segments
ToNormalized(s) ==
    IF ~HasDoubleSep(s) THEN s
    ELSE IF UriSegments(s) = <<>> THEN <<Sep>> ELSE UriOf(UriSegments(s))

\* lines 121-124: the directory the request names
TargetOf(uri) ==
    LET path == Tail(ToNormalized(uri))
    IN  Join(HomeDir, IF Len(path) > 0 THEN PathFrom(path) ELSE <<>>)

\* share_home_server::make_html::make_html: the page built from the listing
\* and the directory path
MakeHtml(html, target) == [page |-> "html", listing |-> html, dir |-> target]

\* Response::build().sized_body(..).finalize(): status 200, no header set
BuildResponse(body) == [kind |-> "Success", status |-> 200, headers |-> {}, body |-> body]

\* a panic in the handler: rocket answers 500
Panicked == [kind |-> "Failure", status |-> 500]

\* one of the two read_dir chains of lines 134-135
ListPass(f, target, real, wantKind, openK, iterK, typeK, faults, rev) ==
    LET entries == {n \in Children(f, real) : <<iterK, n>> \notin faults}
        kept == {n \in entries : f[Append(real, n)].kind = wantKind}
        sorted == SortedBy(DirOrder(kept, rev))
    IN  IF \/ <<openK, <<>>>> \in faults
           \/ \E n \in entries : <<typeK, n>> \in faults
           \/ \E n \in kept : FromPanics(n, faults)
        THEN [ok |-> FALSE]
        ELSE [ok |-> TRUE,
              html |-> [i \in 1..Len(sorted) |->
                          ToHtml(FromDirEntry(f, target, real, sorted[i], faults))]]

\* (mutant) the ".." fragment without the test for the home directory
ParentLinkAlways(target) ==
    <<ToHtml(EntryDetailNew(ParentDir, Parent(target).val, "Directory", NoneV, NoneV))>>

\* lines 129-132: the ".." fragment of a directory other than the home directory
ParentLink(target) ==
    IF target # HomeDir
    THEN <<ToHtml(EntryDetailNew(ParentDir, Parent(target).val, "Directory", NoneV, NoneV))>>
    ELSE <<>>

\* ServeIndex::handle
Handle(f, uri, data, faults, rev) ==
    LET target == TargetOf(uri) IN
    IF ~IsDir(f, target) THEN [kind |-> "Forward", data |-> data]
    ELSE LET real == Resolve(f, target)
             dirs == ListPass(f, target, real, "dir", "open1", "iter1", "type1", faults, rev)
             files == ListPass(f, target, real, "file", "open2", "iter2", "type2", faults, rev)
         IN  IF ~dirs.ok \/ ~files.ok THEN Panicked
             ELSE BuildResponse(MakeHtml(ParentLink(target) \o dirs.html \o files.html, target))

FaultKinds == {"iter1", "iter2", "type1", "type2", "from", "size", "date"}

RECURSIVE SetsUpTo(_, _)
SetsUpTo(U, k) ==
    IF k = 0 THEN {{}}
    ELSE LET S == SetsUpTo(U, k - 1) IN S \cup {s \cup {x} : s \in S, x \in U}

\* the I/O faults that can hit one listing of the directory at real
FaultSets(f, real) ==
    SetsUpTo((FaultKinds \X Children(f, real)) \cup {<<"open1", <<>>>>, <<"open2", <<>>>>},
             MaxFaults)

GetUris ==
    {<<Sep>>, <<Sep, Sep>> \o nB, UriOf(<<nB>>) \o <<Sep>>} \cup
    {UriOf(p) : p \in {<<nB>>, <<nB, nc>>, <<nab>>, <<na>>, <<nq>>, <<nl>>, <<nm>>,
                       <<nn>>, <<nm, nc>>, <<nB, na>>, <<nr>>}}

GetData == {<<>>, <<7>>}

\* a GET changes nothing a later request reads, so listings are not chained
Get(uri, data) ==
    /\ req.method # "GET"
    /\ \E faults \in (IF IsDir(fs, TargetOf(uri))
                      THEN FaultSets(fs, Resolve(fs, TargetOf(uri))) ELSE {{}}),
          rev \in BOOLEAN :
          /\ req' = [method |-> "GET", uri |-> uri, data |-> data, faults |-> faults]
          /\ out' = Handle(fs, uri, data, faults, rev)
    /\ UNCHANGED <<fs, clock, lastUp, lastSaved>>

\* Route::ranked(1, Method::Get, "/", ..)
GetRoot == \E data \in GetData : Get(<<Sep>>, data)

\* Route::ranked(1, Method::Get, "/<path..>", ..)
GetOther == \E uri \in GetUris \ {<<Sep>>}, data \in GetData : Get(uri, data)

-----------------------------------------------------------------------------
(* POST: resolve_post *)

Custom(status, body) == [kind |-> "Response", status |-> status, body |-> body]

\* ct.params().find(|&(k,_)| k == "boundary")
HasBoundary(ct) == \E kv \in ct : kv[1] = "boundary"

\* (mutant) the body is parsed before the boundary parameter is required
PostStepsParseFirst(ct, path, body) ==
    IF body.malformed
    THEN [done |-> TRUE, resp |-> Custom(500, "multipart error")]
    ELSE IF ~HasBoundary(ct)
    THEN [done |-> TRUE,
          resp |-> Custom(400, "Content-Type: form-data without boundary")]
    ELSE IF body.entries = <<>>
    THEN [done |-> TRUE, resp |-> Custom(400, "Request body don't include any entry")]
    ELSE IF ~Head(body.entries).filename.some
    THEN [done |-> TRUE, resp |-> Custom(400, "Request body don't include filename")]
    ELSE [done |-> FALSE,
          dest |-> Join(Join(HomeDir, path), PathFrom(Head(body.entries).filename.val)),
          data |-> Head(body.entries).data]

\* lines 18-32: the checks made before anything is saved; either the error
\* response, or the destination and the data to save there
PostSteps(ct, path, body) ==
    IF ~HasBoundary(ct)
    THEN [done |-> TRUE,
          resp |-> Custom(400, "Content-Type: form-data without boundary")]
    ELSE IF body.malformed
    THEN [done |-> TRUE, resp |-> Custom(500, "multipart error")]
    ELSE IF body.entries = <<>>
    THEN [done |-> TRUE, resp |-> Custom(400, "Request body don't include any entry")]
    ELSE IF ~Head(body.entries).filename.some
    THEN [done |-> TRUE, resp |-> Custom(400, "Request body don't include filename")]
    ELSE [done |-> FALSE,
          dest |-> Join(Join(HomeDir, path), PathFrom(Head(body.entries).filename.val)),
          data |-> Head(body.entries).data]

\* (mutant) a partial save is reported like a full one
ClassifySavePartialOk(sv) ==
    IF sv.result \in {"Full", "Partial"} THEN Custom(200, "File saved")
    ELSE Custom(500, "save error")

\* (mutant) a save cut short by a limit is reported as a client error
ClassifySaveLimit400(sv) ==
    IF sv.result = "Full" THEN Custom(200, "File saved")
    ELSE IF sv.result = "Partial" /\ sv.reason \in {"CountLimit", "SizeLimit"}
    THEN Custom(400, "limit hit")
    ELSE Custom(500, "save error")

\* lines 34-43: the response for a save result
ClassifySave(sv) ==
    IF sv.result = "Full" THEN Custom(200, "File saved")
    ELSE IF sv.result = "Partial" THEN
        IF sv.reason = "CountLimit"
        THEN Custom(500, "The count limit for files in the request was hit.")
        ELSE IF sv.reason = "SizeLimit"
        THEN Custom(500, "The size limit for an individual file was hit.")
        ELSE IF sv.reason = "IoError" THEN Custom(500, "io error")
        ELSE Custom(500, "UTF convert err")
    ELSE Custom(500, "save error")

PartialReasons == {"CountLimit", "SizeLimit", "IoError", "Utf8Error"}

\* whether a file can be opened for writing at dest: its directory exists
\* and dest is not itself a directory
Writable(f, dest) ==
    LET real == Resolve(f, dest)
    IN  real # NoPath /\ (real \in DOMAIN f => f[real].kind = "file")

\* entry.data.save().with_path(dest): the results the save can have
SaveResults(f, dest, data) ==
    IF ~Writable(f, dest) THEN {[result |-> "Error"]}
    ELSE {[result |-> "Full"], [result |-> "Error"]} \cup
         {[result |-> "Partial", reason |-> r, written |-> k] :
             r \in PartialReasons, k \in 0..(Len(data) - 1)}

\* entry.data.save().with_path(dest): what the save leaves on disk
SaveEffect(f, dest, data, sv, now) ==
    LET real == Resolve(f, dest) IN
    IF sv.result = "Full" THEN (real :> FileNode(data, now)) @@ f
    ELSE IF sv.result = "Partial"
    THEN (real :> FileNode(SubSeq(data, 1, sv.written), now)) @@ f
    ELSE f

\* the content-type parameters a client sends
ContentTypes == {{<<"charset", "utf-8">>}, {<<"charset", "utf-8">>, <<"boundary", "X">>}}

ReqPaths == {<<>>, <<nB>>, <<nq>>}

FileNames == {nr, <<Sep>> \o nt \o <<Sep>> \o nx, ParentDir \o <<Sep>> \o nx}

Payloads == {<<5, 6>>, <<7>>}

Entries ==
    {[filename |-> Some(n), data |-> d] : n \in FileNames, d \in Payloads} \cup
    {[filename |-> NoneV, data |-> <<7>>]}

Bodies ==
    {[malformed |-> FALSE, entries |-> <<>>], [malformed |-> TRUE, entries |-> <<>>]} \cup
    {[malformed |-> FALSE, entries |-> <<e>>] : e \in Entries} \cup
    {[malformed |-> TRUE, entries |-> <<[filename |-> NoneV, data |-> <<7>>]>>],
     [malformed |-> FALSE,
      entries |-> <<[filename |-> Some(nr), data |-> <<7>>],
                    [filename |-> Some(nx), data |-> <<5, 6>>]>>]}

NotSaved == [result |-> "None"]

\* resolve_post
ResolvePost(ct, path, body) ==
    LET pre == PostSteps(ct, path, body) IN
    /\ clock < MaxRequests
    /\ clock' = clock + 1
    /\ IF pre.done
       THEN /\ out' = pre.resp
            /\ req' = [method |-> "POST", ct |-> ct, path |-> path, body |-> body,
                       sv |-> NotSaved]
            /\ UNCHANGED <<fs, lastUp, lastSaved>>
       ELSE \E sv \in SaveResults(fs, pre.dest, pre.data) :
            LET real == Resolve(fs, pre.dest)
                resp == ClassifySave(sv)
                prev == IF real \in DOMAIN fs /\ fs[real].kind = "file"
                        THEN Some(fs[real].data) ELSE NoneV
            IN  /\ fs' = SaveEffect(fs, pre.dest, pre.data, sv, clock + 1)
                /\ out' = resp
                /\ req' = [method |-> "POST", ct |-> ct, path |-> path, body |-> body,
                           sv |-> sv]
                /\ lastUp' = IF real = NoPath THEN lastUp
                             ELSE (real :> [payload |-> pre.data,
                                            saved |-> (resp.status = 200),
                                            prev |-> prev]) @@ lastUp
                /\ lastSaved' = IF real # NoPath /\ resp.status = 200
                                THEN (real :> pre.data) @@ lastSaved
                                ELSE lastSaved

\* #[post("/")]
PostRoot == \E ct \in ContentTypes, body \in Bodies : ResolvePost(ct, <<>>, body)

\* #[post("/<path..>")]
PostOther ==
    \E ct \in ContentTypes, path \in ReqPaths \ {<<>>}, body \in Bodies :
        ResolvePost(ct, path, body)

-----------------------------------------------------------------------------
(* Specifications *)

NoRequest == [method |-> "none"]
NoOutcome == [kind |-> "none"]

\* the trees the server may be started on
InitFsSet ==
    {InitFs,
     (HomeDir \o <<nr>> :> FileNode(<<5, 6>>, 1)) @@ InitFs,
     (HomeDir \o <<nB, nr>> :> FileNode(<<7>>, 2)) @@ (HomeDir \o <<nB, nab>> :> DirNode) @@ InitFs,
     [p \in DOMAIN InitFs \ {HomeDir \o <<nab, nBad>>} |-> InitFs[p]]}

InitCommon ==
    /\ clock = 0
    /\ req = NoRequest
    /\ out = NoOutcome
    /\ lastUp = <<>>
    /\ lastSaved = <<>>

Init == fs = InitFs /\ InitCommon

InitList == fs \in InitFsSet /\ InitCommon

NextUpload == PostRoot \/ PostOther

NextList == GetRoot \/ GetOther

Next == NextUpload \/ NextList

\* uploads, from the fixed initial tree
SpecUpload == Init /\ [][NextUpload]_vars

\* listings, of each of the initial trees
SpecList == InitList /\ [][NextList]_vars

Spec == Init /\ [][Next]_vars

-----------------------------------------------------------------------------
(* Vocabulary of the properties *)

IsGet == req.method = "GET"
IsPost == req.method = "POST"

\* the directory a GET names: the home directory followed by the URI's segments
ReqSegs == UriSegments(req.uri)
ReqDir == HomeDir \o ReqSegs
ReqReal == Resolve(fs, ReqDir)
ReqIsDir == ReqReal # NoPath /\ ReqReal \in DOMAIN fs /\ fs[ReqReal].kind = "dir"

KindOf(n) == fs[Append(ReqReal, n)].kind
SubDirs == {n \in Children(fs, ReqReal) : KindOf(n) = "dir"}
Files == {n \in Children(fs, ReqReal) : KindOf(n) = "file"}
Links == {n \in Children(fs, ReqReal) : KindOf(n) = "symlink"}

Listed == out.kind = "Success"
Listing == out.body.listing
DirClass == <<"icon", "icon-", "directory">>
FileClass == <<"icon", "icon-", "file">>

\* a strictly precedes b in byte order
Before(a, b) ==
    \E k \in 1..Len(b) :
        /\ \A i \in 1..(k - 1) : i <= Len(a) /\ a[i] = b[i]
        /\ (Len(a) = k - 1 \/ (Len(a) >= k /\ a[k] < b[k]))

AllUtf8 == \A n \in Children(fs, ReqReal) : \A i \in 1..Len(n) : n[i] < 128

-----------------------------------------------------------------------------
(* C1 *)

\* C1: the listing body is the ".." fragment exactly when the directory is
\* not the root, then the fragments of the subdirectories that were read, in
\* ascending byte order of their names, then those of the files that were
\* read, in ascending order; no file fragment precedes a directory fragment.
C1_ListingOrder ==
    (IsGet /\ Listed) =>
        LET L == Listing
            hasParent == ReqSegs # <<>>
            rest == IF hasParent THEN Tail(L) ELSE L
            dirs == {n \in SubDirs : <<"iter1", n>> \notin req.faults}
            files == {n \in Files : <<"iter2", n>> \notin req.faults}
            nd == Cardinality(dirs)
        IN  /\ hasParent => (L # <<>> /\ L[1].name = ParentDir)
            /\ Len(rest) = nd + Cardinality(files)
            /\ {rest[i].name : i \in 1..nd} = dirs
            /\ {rest[i].name : i \in (nd + 1)..Len(rest)} = files
            /\ \A i \in 1..Len(rest) :
                  rest[i].class = IF i <= nd THEN DirClass ELSE FileClass
            /\ \A i, j \in 1..Len(rest) :
                  (i < j /\ (j <= nd \/ i > nd)) => Before(rest[i].name, rest[j].name)

\* a listing of a non-root directory with two subdirectories and two files
C1_Witness ==
    /\ IsGet /\ Listed /\ req.faults = {}
    /\ ReqSegs # <<>>
    /\ Cardinality(SubDirs) >= 2 /\ Cardinality(Files) >= 2
    /\ Len(Listing) = 1 + Cardinality(SubDirs) + Cardinality(Files)

-----------------------------------------------------------------------------
(* C2 *)

\* C2: a GET whose path is not a directory (a file, a link to a file, or
\* nothing at all) is forwarded with the request data; the handler produces no
\* response and does not fail.
C2_NonDirForwards ==
    (IsGet /\ ~ReqIsDir) => out = [kind |-> "Forward", data |-> req.data]

\* a GET of a regular file, forwarded with its data
C2_Witness ==
    /\ IsGet /\ req.data # <<>>
    /\ ReqReal \in DOMAIN fs /\ fs[ReqReal].kind = "file"
    /\ out.kind = "Forward"

-----------------------------------------------------------------------------
(* C3 *)

\* C3 (as claimed): every symbolic link among the children of a listed
\* directory has a fragment in the listing, with the directory icon class.
C3_LinksListedAsDirectories ==
    (IsGet /\ Listed /\ req.faults = {}) =>
        \A n \in Links :
            \E i \in 1..Len(Listing) : Listing[i].name = n /\ Listing[i].class = DirClass

-----------------------------------------------------------------------------
(* C7 *)

\* C7 (as claimed): a GET of a directory is answered by the handler with
\* status 200, the page built from the listing and the directory path, and an
\* HTML content type set on the response.
C7_DirectoryAnswered ==
    (IsGet /\ ReqIsDir /\ req.faults = {} /\ AllUtf8) =>
        /\ out.kind = "Success"
        /\ out.status = 200
        /\ out.body.page = "html" /\ out.body.dir = ReqDir
        /\ \E h \in out.headers : h = <<"Content-Type", "text/html">>

-----------------------------------------------------------------------------
(* C8 *)

\* C8: the listing of a non-root directory without entries is exactly the
\* ".." fragment, of class directory, with empty size and date, linking to the
\* parent directory relative to the root; the listing of the root has no ".."
\* fragment.
C8_ParentLink ==
    (IsGet /\ Listed) =>
        /\ ReqSegs = <<>> => \A i \in 1..Len(Listing) : Listing[i].name # ParentDir
        /\ (ReqSegs # <<>> /\ Children(fs, ReqReal) = {}) =>
              Listing = <<[href  |-> <<RootDir>> \o SubSeq(ReqSegs, 1, Len(ReqSegs) - 1),
                           class |-> DirClass,
                           title |-> ParentDir,
                           name  |-> ParentDir,
                           size  |-> <<>>,
                           date  |-> <<>>]>>

\* the listing of an empty directory two levels below the root
C8_Witness ==
    /\ IsGet /\ Listed
    /\ Len(ReqSegs) = 2 /\ Children(fs, ReqReal) = {}
    /\ Len(Listing) = 1

-----------------------------------------------------------------------------
(* C9 *)

PerEntryFaults == \A x \in req.faults : x[1] \in FaultKinds

\* C9 (as claimed): when reading individual children fails, the handler still
\* answers 200 and lists every child that no failure hit.
C9_EntryFaultsSkipped ==
    (IsGet /\ ReqIsDir /\ AllUtf8 /\ PerEntryFaults) =>
        /\ out.kind = "Success"
        /\ out.status = 200
        /\ \A n \in SubDirs \cup Files :
              (\A x \in req.faults : x[2] # n) =>
                  \E i \in 1..Len(Listing) : Listing[i].name = n

-----------------------------------------------------------------------------
(* Vocabulary of the upload properties *)

BoundaryGiven == \E kv \in req.ct : kv[1] = "boundary"
FirstEntry == req.body.entries[1]
ReachedSave == IsPost /\ req.sv.result # "None"

\* RootDirectory joined with the request path and the declared filename
UploadDest == Join(Join(HomeDir, req.path), PathFrom(FirstEntry.filename.val))

\* a path with its ".." components resolved against the components before them
RECURSIVE Lexical(_, _)
Lexical(done, rest) ==
    IF rest = <<>> THEN done
    ELSE IF Head(rest) = RootDir THEN Lexical(<<RootDir>>, Tail(rest))
    ELSE IF Head(rest) = ParentDir
         THEN Lexical(IF Len(done) > 1 THEN SubSeq(done, 1, Len(done) - 1) ELSE done,
                      Tail(rest))
    ELSE Lexical(Append(done, Head(rest)), Tail(rest))

InsideHome(p) ==
    LET q == Lexical(<<>>, p)
    IN  Len(q) >= Len(HomeDir) /\ SubSeq(q, 1, Len(HomeDir)) = HomeDir

-----------------------------------------------------------------------------
(* C4 *)

\* C4: the response of an upload is decided by the first failure in the
\* order: no boundary parameter (400), unparsable body (500), no entry (400),
\* no filename on the first entry (400), then the save result (200 "File
\* saved" or 500); a later failure never masks an earlier one.
C4_FailureOrder ==
    IsPost =>
        IF ~BoundaryGiven
        THEN out.status = 400 /\ out.body = "Content-Type: form-data without boundary"
        ELSE IF req.body.malformed THEN out.status = 500
        ELSE IF Len(req.body.entries) = 0
        THEN out.status = 400 /\ out.body = "Request body don't include any entry"
        ELSE IF ~FirstEntry.filename.some
        THEN out.status = 400 /\ out.body = "Request body don't include filename"
        ELSE IF req.sv.result = "Full"
        THEN out.status = 200 /\ out.body = "File saved"
        ELSE req.sv.result \in {"Partial", "Error"} /\ out.status = 500

\* an entry that carries data but declares no filename, rejected with 400
C4_Witness ==
    /\ IsPost /\ BoundaryGiven /\ ~req.body.malformed
    /\ Len(req.body.entries) = 1
    /\ ~FirstEntry.filename.some /\ FirstEntry.data # <<>>
    /\ out.status = 400

-----------------------------------------------------------------------------
(* C5 *)

\* C5 (as claimed): every file that an upload was saved to holds the payload
\* of the most recent upload to it that returned "File saved".
C5_HoldsLastSaved ==
    \A p \in DOMAIN lastSaved :
        p \in DOMAIN fs /\ fs[p].kind = "file" /\ fs[p].data = lastSaved[p]

\* C5 (amended): every file whose most recent upload returned "File saved"
\* holds exactly the payload of that upload, whatever it held before.
C5_HoldsLastUpload ==
    \A p \in DOMAIN lastUp :
        lastUp[p].saved =>
            p \in DOMAIN fs /\ fs[p].kind = "file" /\ fs[p].data = lastUp[p].payload

\* a saved re-upload of a payload shorter than the content it replaced
C5_Witness ==
    /\ IsPost /\ out.status = 200
    /\ \E p \in DOMAIN lastUp :
          /\ lastUp[p].saved /\ lastUp[p].prev.some
          /\ Len(lastUp[p].prev.val) > Len(lastUp[p].payload)
          /\ p \in DOMAIN lastSaved /\ fs[p].data = lastUp[p].payload

-----------------------------------------------------------------------------
(* C6 *)

\* C6 (as claimed): the destination an upload writes to lies inside the root
\* directory, for every filename the part declares.
C6_DestinationInsideRoot ==
    ReachedSave => InsideHome(UploadDest)

-----------------------------------------------------------------------------
(* C10 *)

ChangedPaths ==
    {p \in DOMAIN fs \cup DOMAIN fs' :
        p \notin DOMAIN fs \/ p \notin DOMAIN fs' \/ fs[p] # fs'[p]}

Rejected ==
    \/ out'.status = 400
    \/ out'.status = 500 /\ req'.sv.result = "None"

C10_Step ==
    /\ Rejected => fs' = fs
    /\ out'.status = 200 =>
          LET dest == Join(Join(HomeDir, req'.path),
                           PathFrom(req'.body.entries[1].filename.val))
              real == Resolve(fs, dest)
          IN  /\ ChangedPaths \subseteq {real}
              /\ real \in DOMAIN fs' /\ fs'[real].kind = "file"
              /\ \A p \in DOMAIN fs : fs[p].kind = "dir" => (p \in DOMAIN fs' /\ fs'[p] = fs[p])

\* C10: an upload rejected with 400, or with the 500 of an unparsable body,
\* leaves the filesystem as it was; an upload answered "File saved" changes
\* nothing but the file at its destination.
C10_Frame == [][C10_Step]_vars

\* a saved upload that created a file, after a rejected one
C10_Witness ==
    /\ IsPost /\ out.status = 200 /\ clock = 2
    /\ DOMAIN fs # DOMAIN InitFs

====
